---- MODULE Spec2Model ----
(***************************************************************************)
(* LanceBuffer (rust/lance-encoding/src/buffer.rs): a copy-on-write byte   *)
(* buffer that is either Borrowed (a reference-counted, read-only region,  *)
(* the "Shared" variant of the specification) or Owned (a Vec<u8>).        *)
(*                                                                         *)
(* The model keeps a small heap of allocations and a few live buffer       *)
(* values.  A buffer is a record [variant, alloc, ptr, len, tsize]:        *)
(*   alloc  the allocation it holds (0: none, the pointer is dangling),    *)
(*   ptr    its start address, len its length in bytes,                    *)
(*   tsize  the element size of a ScalarBuffer<T> view (0 otherwise).      *)
(* Allocation a occupies addresses from AllocAddr(a) + mis upward, so a    *)
(* start address identifies the region it lies in.                         *)
(***************************************************************************)
EXTENDS Integers, Sequences, FiniteSets, TLC

\* ------------------------------------------------------------------ bounds
NSlots == 2        \* live buffer values held by the caller at one time
MaxLen == 2        \* bytes in a caller-supplied byte sequence
MaxVals == 2       \* elements in a caller-supplied Vec<T>
MaxRows == 2       \* num_values passed to zip_into_one
NViews == 2        \* ScalarBuffer<T> views held by the caller at one time
MaxBuf == 4        \* bytes in a buffer built by concat_into_one / zip_into_one

Slots == 1..NSlots
Views == 1..NViews
AllocIds == 1..(NSlots + NViews + 1)
ByteVals == {15, 11}                 \* 0x0F, 0x0B (tests::test_bit_slice_le)
ByteSeqs == UNION {[1..n -> ByteVals] : n \in 0..MaxLen}
TSizes == {1, 2}                     \* size_of::<T>() = align_of::<T>(): u8, u16
WordVals == {2831, 3851}             \* u16 values: 0x0B0F, 0x0F0B
UsizeMax == 255                      \* usize::MAX, scaled to 8 bits

VARIABLES allocs, bufs, views, last
vars == <<allocs, bufs, views, last>>

\* ------------------------------------------------------------- the heap
FreeAlloc == [kind |-> "free", mis |-> 0, talign |-> 0, bytes |-> <<>>]
NoBuf == [variant |-> "None", alloc |-> 0, ptr |-> 0, len |-> 0, tsize |-> 0]

AllocAddr(a) == 16 * a
Base(al, a) == AllocAddr(a) + al[a].mis

\* NonNull::dangling() of a Vec<T> that holds no allocation: align_of::<T>().
Dangling(align) == align

Min(a, b) == IF a < b THEN a ELSE b
Max(a, b) == IF a > b THEN a ELSE b
SumSeq(s) ==
  LET RECURSIVE go(_)
      go(i) == IF i = 0 THEN 0 ELSE s[i] + go(i - 1)
  IN go(Len(s))
Flatten(ss) ==
  LET RECURSIVE go(_)
      go(i) == IF i = 0 THEN <<>> ELSE go(i - 1) \o ss[i]
  IN go(Len(ss))

\* LanceBuffer::as_ref / Deref: the bytes reachable through a buffer.
as_ref(al, b) ==
  IF b.alloc = 0 THEN <<>>
  ELSE LET off == b.ptr - Base(al, b.alloc)
       IN SubSeq(al[b.alloc].bytes, off + 1, off + b.len)

\* LanceBuffer::len
len(b) == b.len

\* <*const u8>::align_offset(align) == 0
is_aligned(ptr, align) == ptr % align = 0

\* lance_core::utils::bit::is_pwr_two, for the widths the model passes (>= 1)
is_pwr_two(n) == n \in {1, 2, 4, 8}

LiveAllocs(bs, vs) == ({bs[s].alloc : s \in Slots} \cup {vs[v].alloc : v \in Views}) \ {0}
FreeSlots(bs) == {s \in Slots : bs[s].variant = "None"}
NewSlot(bs) == CHOOSE s \in FreeSlots(bs) : \A t \in FreeSlots(bs) : s <= t
FreeViews(vs) == {v \in Views : vs[v].variant = "None"}
NewView(vs) == CHOOSE v \in FreeViews(vs) : \A t \in FreeViews(vs) : v <= t
NewAlloc(al) ==
  CHOOSE a \in AllocIds : al[a].kind = "free" /\ \A c \in AllocIds : al[c].kind = "free" => a <= c

\* Dropping the last holder of a region frees it (Arc / Vec drop).
Release(al, bs, vs) ==
  [a \in AllocIds |-> IF a \in LiveAllocs(bs, vs) THEN al[a] ELSE FreeAlloc]

\* A Vec<T> with the given bytes: no allocation when it is empty.
VecAlloc(bytes, align) ==
  [kind |-> "vec", mis |-> 0, talign |-> align, bytes |-> bytes]

\* The record of the last call: what was called, on what, and what came back.
NoCall ==
  [op |-> "none", outcome |-> "ok", recv |-> 0, pre |-> NoBuf, preBytes |-> <<>>,
   res |-> 0, args |-> <<>>, ins |-> <<>>, preLive |-> {}, typed |-> <<>>,
   vals |-> <<>>, written |-> 0, made |-> <<>>, bytes |-> <<>>]

Call(op, outcome, recv, res, args) ==
  [NoCall EXCEPT !.op = op, !.outcome = outcome, !.recv = recv,
                 !.pre = IF recv = 0 THEN NoBuf ELSE bufs[recv],
                 !.preBytes = IF recv = 0 THEN <<>> ELSE as_ref(allocs, bufs[recv]),
                 !.res = res, !.args = args, !.preLive = LiveAllocs(bufs, views)]

\* Commit a call: the new buffer values, the heap with unreferenced regions freed.
CommitViews(al, bs, vs, call) ==
  /\ bufs' = bs
  /\ views' = vs
  /\ allocs' = Release(al, bs, vs)
  /\ last' = call

Commit(al, bs, call) == CommitViews(al, bs, views, call)

\* A fresh Vec<u8> holding `bytes`, as the heap and buffer fields it yields.
\* (Vec::with_capacity(n) + extend_from_slice, <[u8]>::to_vec, Vec::clone)
NewVec(al, bytes, variant) ==
  IF bytes = <<>>
    THEN [al |-> al,
          buf |-> [variant |-> variant, alloc |-> 0, ptr |-> Dangling(1), len |-> 0, tsize |-> 0]]
    ELSE LET a == NewAlloc(al)
         IN [al |-> [al EXCEPT ![a] = VecAlloc(bytes, 1)],
             buf |-> [variant |-> variant, alloc |-> a, ptr |-> AllocAddr(a),
                      len |-> Len(bytes), tsize |-> 0]]

\* The caller is between calls: the outcome of the previous one has been taken.
Idle == last.op = "none"

Init ==
  /\ allocs = [a \in AllocIds |-> FreeAlloc]
  /\ bufs = [s \in Slots |-> NoBuf]
  /\ views = [v \in Views |-> NoBuf]
  /\ last = NoCall

\* ------------------------------------------------------- constructions
\* A fresh region of `bytes` whose allocation is aligned for `align`, or no
\* allocation (a dangling, aligned pointer) when there are no bytes.
NewRegion(al, bytes, variant, align, tsize) ==
  IF bytes = <<>>
    THEN [al |-> al,
          buf |-> [variant |-> variant, alloc |-> 0, ptr |-> Dangling(align),
                   len |-> 0, tsize |-> tsize]]
    ELSE LET a == NewAlloc(al)
         IN [al |-> [al EXCEPT ![a] = VecAlloc(bytes, align)],
             buf |-> [variant |-> variant, alloc |-> a, ptr |-> AllocAddr(a),
                      len |-> Len(bytes), tsize |-> tsize]]

\* When the caller constructs a buffer: Solo, while it holds no other value;
\* Room, whenever it can hold one more.
Solo == FreeSlots(bufs) = Slots /\ FreeViews(views) = Views
Room == FreeSlots(bufs) # {}

\* impl From<Vec<u8>> for LanceBuffer / copy_slice / copy_array / empty
FromVec(when) ==
  /\ Idle
  /\ when
  /\ \E bytes \in ByteSeqs :
       LET s == NewSlot(bufs)
           v == NewVec(allocs, bytes, "Owned")
       IN Commit(v.al, [bufs EXCEPT ![s] = v.buf], Call("from_vec", "ok", 0, s, <<>>))

\* LanceBuffer::from_bytes(bytes, bytes_per_value).  The bytes::Bytes handed in
\* is an external region `ext` of the heap `al`.
from_bytes_of(al, ext, bytes_per_value) ==
  LET ptr == Base(al, ext)
  IN IF is_pwr_two(bytes_per_value) /\ ~is_aligned(ptr, bytes_per_value)
       THEN NewVec(al, al[ext].bytes, "Owned")
       ELSE [al |-> al,
             buf |-> [variant |-> "Borrowed", alloc |-> ext, ptr |-> ptr,
                      len |-> Len(al[ext].bytes), tsize |-> 0]]

from_vec == FromVec(Solo)
from_vec_any == FromVec(Room)

from_bytes ==
  /\ Idle
  /\ Solo
  /\ \E bytes \in ByteSeqs, mis \in {0, 1}, bpv \in {1, 2, 3} :
       LET s == NewSlot(bufs)
           ext == NewAlloc(allocs)
           al == [allocs EXCEPT ![ext] =
                    [kind |-> "ext", mis |-> mis, talign |-> 1, bytes |-> bytes]]
           v == from_bytes_of(al, ext, bpv)
       IN Commit(v.al, [bufs EXCEPT ![s] = v.buf],
                 [Call("from_bytes", "ok", 0, s, <<bpv, Base(al, ext)>>)
                    EXCEPT !.preBytes = bytes, !.preLive = LiveAllocs(bufs, views) \cup {ext}])

\* Mutant of to_ne_bytes: the bytes in big-endian order.
to_be_bytes(v, size) == [i \in 1..size |-> (v \div (256 ^ (size - i))) % 256]

\* T::to_ne_bytes on a little-endian target, for a value of `size` bytes.
to_ne_bytes(v, size) == [i \in 1..size |-> (v \div (256 ^ (i - 1))) % 256]
\* T::from_ne_bytes
from_ne_bytes(bs) ==
  LET RECURSIVE go(_)
      go(i) == IF i > Len(bs) THEN 0 ELSE bs[i] * (256 ^ (i - 1)) + go(i + 1)
  IN go(1)

\* The bytes of a Vec<T>'s backing memory.
VecBytes(vals, size) == Flatten([i \in 1..Len(vals) |-> to_ne_bytes(vals[i], size)])
\* The elements of a ScalarBuffer<T> over `bytes`.
TypedValues(bytes, size) ==
  [i \in 1..(Len(bytes) \div size) |->
     from_ne_bytes(SubSeq(bytes, (i - 1) * size + 1, i * size))]

\* LanceBuffer::reinterpret_vec::<T>(vec): Buffer::from_vec keeps the Vec's memory.
reinterpret_vec_of(al, vals, size) ==
  NewRegion(al, VecBytes(vals, size), "Borrowed", size, 0)

ValsOf(size) == IF size = 1 THEN ByteVals ELSE WordVals

ReinterpretVec(when, max_n) ==
  /\ Idle
  /\ when
  /\ \E size \in TSizes, n \in 0..max_n :
       \E vals \in [1..n -> ValsOf(size)] :
         LET s == NewSlot(bufs)
             v == reinterpret_vec_of(allocs, vals, size)
         IN Commit(v.al, [bufs EXCEPT ![s] = v.buf],
                   [Call("reinterpret_vec", "ok", 0, s, <<size>>) EXCEPT !.vals = vals])

reinterpret_vec == ReinterpretVec(Solo, 1)
reinterpret_vec_wide == ReinterpretVec(Solo, MaxVals)
reinterpret_vec_any == ReinterpretVec(Room, 1)

\* --------------------------------------------------- ownership state
\* Buffer::from_vec(vec): donates the Vec's allocation, no copy.
Buffer_from_vec(b) == [b EXCEPT !.variant = "Borrowed"]

\* LanceBuffer::into_borrowed(self)
into_borrowed_of(b) ==
  IF b.variant = "Borrowed" THEN b ELSE Buffer_from_vec(b)

into_borrowed ==
  /\ Idle
  /\ \E s \in Slots :
       /\ bufs[s].variant \in {"Owned", "Borrowed"}
       /\ Commit(allocs, [bufs EXCEPT ![s] = into_borrowed_of(bufs[s])],
                 Call("into_borrowed", "ok", s, s, <<>>))

\* Mutant of into_owned_of: a Borrowed buffer's region is taken over, not copied.
into_owned_no_copy(al, b) == [al |-> al, buf |-> [b EXCEPT !.variant = "Owned"]]

\* LanceBuffer::into_owned(self) -> Vec<u8>; the Vec is held as an Owned value.
into_owned_of(al, b) ==
  IF b.variant = "Borrowed" THEN NewVec(al, as_ref(al, b), "Owned")
  ELSE [al |-> al, buf |-> b]

into_owned ==
  /\ Idle
  /\ \E s \in Slots :
       /\ bufs[s].variant \in {"Owned", "Borrowed"}
       /\ LET v == into_owned_of(allocs, bufs[s])
          IN Commit(v.al, [bufs EXCEPT ![s] = v.buf], Call("into_owned", "ok", s, s, <<>>))

\* LanceBuffer::to_owned(&self)
to_owned_of(al, b) == NewVec(al, as_ref(al, b), "Owned")

to_owned ==
  /\ Idle
  /\ FreeSlots(bufs) # {}
  /\ \E s \in Slots :
       /\ bufs[s].variant \in {"Owned", "Borrowed"}
       /\ LET v == to_owned_of(allocs, bufs[s])
              r == NewSlot(bufs)
          IN Commit(v.al, [bufs EXCEPT ![r] = v.buf], Call("to_owned", "ok", s, r, <<>>))

\* LanceBuffer::deep_copy(&self)
deep_copy_of(al, b) == NewVec(al, as_ref(al, b), "Owned")

deep_copy ==
  /\ Idle
  /\ FreeSlots(bufs) # {}
  /\ \E s \in Slots :
       /\ bufs[s].variant \in {"Owned", "Borrowed"}
       /\ LET v == deep_copy_of(allocs, bufs[s])
              r == NewSlot(bufs)
          IN Commit(v.al, [bufs EXCEPT ![r] = v.buf], Call("deep_copy", "ok", s, r, <<>>))

\* Mutant of borrow_and_clone_of: `*self` is not reassigned, so an Owned
\* receiver is left as the empty Vec that std::mem::take put there.
borrow_and_clone_forgets_self(b) ==
  IF b.variant = "Borrowed"
    THEN [self |-> b, buf |-> b]
    ELSE [self |-> [b EXCEPT !.alloc = 0, !.ptr = Dangling(1), !.len = 0],
          buf |-> Buffer_from_vec(b)]

\* LanceBuffer::borrow_and_clone(&mut self): the receiver afterwards and the clone.
borrow_and_clone_of(b) ==
  IF b.variant = "Borrowed"
    THEN [self |-> b, buf |-> b]
    ELSE LET buffer == Buffer_from_vec(b)
         IN [self |-> buffer, buf |-> buffer]

borrow_and_clone ==
  /\ Idle
  /\ FreeSlots(bufs) # {}
  /\ \E s \in Slots :
       /\ bufs[s].variant \in {"Owned", "Borrowed"}
       /\ LET v == borrow_and_clone_of(bufs[s])
              r == NewSlot(bufs)
          IN Commit(allocs, [bufs EXCEPT ![s] = v.self, ![r] = v.buf],
                    Call("borrow_and_clone", "ok", s, r, <<>>))

\* Mutant of try_clone_of: an Owned buffer is cloned like a Borrowed one.
try_clone_any_variant(b) == [outcome |-> "ok", buf |-> [b EXCEPT !.variant = "Borrowed"]]

\* LanceBuffer::try_clone(&self): Ok(clone) or Err(Error::Internal).
try_clone_of(b) ==
  IF b.variant = "Borrowed"
    THEN [outcome |-> "ok", buf |-> b]
    ELSE [outcome |-> "err", buf |-> NoBuf]

try_clone ==
  /\ Idle
  /\ \E s \in Slots :
       /\ bufs[s].variant \in {"Owned", "Borrowed"}
       /\ LET v == try_clone_of(bufs[s])
          IN IF v.outcome = "ok"
               THEN /\ FreeSlots(bufs) # {}
                    /\ Commit(allocs, [bufs EXCEPT ![NewSlot(bufs)] = v.buf],
                              Call("try_clone", "ok", s, NewSlot(bufs), <<>>))
               ELSE Commit(allocs, bufs, Call("try_clone", "err", s, 0, <<>>))

\* ------------------------------------------------------------ slicing
\* usize::saturating_add
saturating_add(a, b) == Min(a + b, UsizeMax)

\* arrow_buffer::Buffer::slice_with_length: a view of the same region.
Buffer_slice_with_length(b, offset, length) ==
  [b EXCEPT !.ptr = b.ptr + offset, !.len = length]

\* Mutant of slice_with_length_of: the bound is asserted with < instead of <=.
slice_with_length_strict(al, b, offset, length) ==
  IF ~(saturating_add(offset, length) < len(b))
    THEN [outcome |-> "panic", al |-> al, buf |-> NoBuf]
  ELSE IF b.variant = "Borrowed"
    THEN [outcome |-> "ok", al |-> al, buf |-> Buffer_slice_with_length(b, offset, length)]
  ELSE LET v == NewVec(al, SubSeq(as_ref(al, b), offset + 1, offset + length), "Owned")
       IN [outcome |-> "ok", al |-> v.al, buf |-> v.buf]

\* LanceBuffer::slice_with_length(&self, offset, length)
slice_with_length_of(al, b, offset, length) ==
  IF ~(saturating_add(offset, length) <= len(b))
    THEN [outcome |-> "panic", al |-> al, buf |-> NoBuf]
  ELSE IF b.variant = "Borrowed"
    THEN [outcome |-> "ok", al |-> al, buf |-> Buffer_slice_with_length(b, offset, length)]
  ELSE LET v == NewVec(al, SubSeq(as_ref(al, b), offset + 1, offset + length), "Owned")
       IN [outcome |-> "ok", al |-> v.al, buf |-> v.buf]

SizeArgs == (0..MaxLen) \cup {UsizeMax}

slice_with_length ==
  /\ Idle
  /\ FreeSlots(bufs) # {}
  /\ \E s \in Slots, offset \in SizeArgs, length \in SizeArgs :
       /\ bufs[s].variant \in {"Owned", "Borrowed"}
       /\ LET v == slice_with_length_of(allocs, bufs[s], offset, length)
              r == NewSlot(bufs)
          IN IF v.outcome = "ok"
               THEN Commit(v.al, [bufs EXCEPT ![r] = v.buf],
                           Call("slice_with_length", "ok", s, r, <<offset, length>>))
               ELSE Commit(allocs, bufs,
                           Call("slice_with_length", "panic", s, 0, <<offset, length>>))

div_ceil(a, b) == (a + b - 1) \div b

\* Bit k of a byte sequence, bit 0 of byte 0 being the least significant.
SrcBit(bytes, k) == (bytes[(k \div 8) + 1] \div (2 ^ (k % 8))) % 2

\* arrow_buffer::bitwise_unary_op_helper(buf, offset, len, |a| a): the bits
\* [offset, offset + len) packed from bit 0 of a fresh buffer of ceil(len / 8)
\* bytes, the bits above len in its last byte being zero.
bitwise_unary_op_helper(bytes, offset, length) ==
  LET bit(k) == IF k < length THEN SrcBit(bytes, offset + k) ELSE 0
      RECURSIVE byte(_, _)
      byte(j, i) == IF i = 8 THEN 0 ELSE bit(8 * j + i) * (2 ^ i) + byte(j, i + 1)
  IN [j \in 1..div_ceil(length, 8) |-> byte(j - 1, 0)]

\* Mutant of arrow_bit_slice: every offset takes the byte-slice path.
arrow_bit_slice_bytes_only(al, b, offset, length) ==
  IF (offset \div 8) + div_ceil(length, 8) <= len(b)
    THEN [outcome |-> "ok", al |-> al,
          buf |-> Buffer_slice_with_length(b, offset \div 8, div_ceil(length, 8))]
    ELSE [outcome |-> "panic", al |-> al, buf |-> NoBuf]

\* LanceBuffer::arrow_bit_slice(buf, offset, len)
arrow_bit_slice(al, b, offset, length) ==
  IF offset % 8 = 0
    THEN IF (offset \div 8) + div_ceil(length, 8) <= len(b)
           THEN [outcome |-> "ok", al |-> al,
                 buf |-> Buffer_slice_with_length(b, offset \div 8, div_ceil(length, 8))]
           ELSE [outcome |-> "panic", al |-> al, buf |-> NoBuf]
    ELSE LET v == NewRegion(al, bitwise_unary_op_helper(as_ref(al, b), offset, length),
                            "Borrowed", 64, 0)
         IN [outcome |-> "ok", al |-> v.al, buf |-> v.buf]

\* LanceBuffer::bit_slice_le_with_length(&mut self, offset, length): the receiver
\* afterwards and the slice.
bit_slice_le_with_length_of(al, b, offset, length) ==
  LET c == borrow_and_clone_of(b)
      sliced == arrow_bit_slice(al, c.buf, offset, length)
  IN [outcome |-> sliced.outcome, al |-> sliced.al, self |-> c.self,
      buf |-> [sliced.buf EXCEPT !.variant = IF sliced.outcome = "ok" THEN "Borrowed" ELSE @]]

\* One call with the bit offset and length drawn from the given sets.  A call
\* with an unaligned offset that runs past the end of the buffer is outside the
\* domain of the helper and is not drawn.
BitSlice(offsets, lengths) ==
  /\ Idle
  /\ FreeSlots(bufs) # {}
  /\ \E s \in Slots, offset \in offsets, length \in lengths :
       /\ bufs[s].variant \in {"Owned", "Borrowed"}
       /\ offset % 8 # 0 => offset + length <= 8 * len(bufs[s])
       /\ LET v == bit_slice_le_with_length_of(allocs, bufs[s], offset, length)
              r == NewSlot(bufs)
          IN IF v.outcome = "ok"
               THEN Commit(v.al, [bufs EXCEPT ![s] = v.self, ![r] = v.buf],
                           Call("bit_slice_le_with_length", "ok", s, r, <<offset, length>>))
               ELSE Commit(allocs, [bufs EXCEPT ![s] = v.self],
                           Call("bit_slice_le_with_length", "panic", s, 0, <<offset, length>>))

bit_slice_le_with_length == BitSlice({0, 4}, {4})
bit_slice_le_any == BitSlice(0..(8 * MaxLen), 0..(8 * MaxLen))

\* ---------------------------------------------------- typed reinterpretation
\* LanceBuffer::into_buffer(self): never copies.
into_buffer(b) == [b EXCEPT !.variant = "Borrowed"]

\* Mutant of borrow_to_typed_slice_of: the alignment is not consulted and the
\* bytes are always copied.
borrow_to_typed_slice_always_copies(al, b, size) ==
  IF len(b) % size # 0
    THEN [outcome |-> "panic", al |-> al, self |-> b, buf |-> NoBuf]
    ELSE LET v == NewRegion(al, as_ref(al, b), "Scalar", size, size)
         IN [outcome |-> "ok", al |-> v.al, self |-> b, buf |-> v.buf]

\* LanceBuffer::borrow_to_typed_slice::<T>(&mut self), size_of::<T>() = size:
\* the receiver afterwards and the ScalarBuffer<T>.
borrow_to_typed_slice_of(al, b, size) ==
  LET align == size
      aligned == is_aligned(b.ptr, align)
  IN IF len(b) % size # 0
       THEN [outcome |-> "panic", al |-> al, self |-> b, buf |-> NoBuf]
     ELSE IF aligned
       THEN LET c == borrow_and_clone_of(b)
            IN [outcome |-> "ok", al |-> al, self |-> c.self,
                buf |-> [into_buffer(c.buf) EXCEPT !.variant = "Scalar", !.tsize = size]]
     ELSE LET v == NewRegion(al, as_ref(al, b), "Scalar", align, size)
          IN [outcome |-> "ok", al |-> v.al, self |-> b, buf |-> v.buf]

borrow_to_typed_slice ==
  /\ Idle
  /\ FreeViews(views) # {}
  /\ \E s \in Slots, size \in TSizes :
       /\ bufs[s].variant \in {"Owned", "Borrowed"}
       /\ LET v == borrow_to_typed_slice_of(allocs, bufs[s], size)
              r == NewView(views)
              \* the Vec<T> this buffer was made from by the call just before
              src == IF last.made # <<>> /\ last.made[1].slot = s /\ last.made[1].size = size
                       THEN <<last.made[1].vals>> ELSE <<>>
          IN IF v.outcome = "ok"
               THEN CommitViews(v.al, [bufs EXCEPT ![s] = v.self], [views EXCEPT ![r] = v.buf],
                           [Call("borrow_to_typed_slice", "ok", s, r, <<size>>)
                              EXCEPT !.typed = TypedValues(as_ref(v.al, v.buf), size),
                                     !.vals = src])
               ELSE Commit(allocs, bufs, Call("borrow_to_typed_slice", "panic", s, 0, <<size>>))

\* -------------------------------------------------------- combination
\* The lists of distinct buffers a caller can pass (a Vec<LanceBuffer> owns its
\* elements, so no buffer value occurs twice).
Lists(bs) ==
  LET live == {s \in Slots : bs[s].variant \in {"Owned", "Borrowed"}}
  IN UNION {{q \in [1..n -> live] : \A i, j \in 1..n : i # j => q[i] # q[j]} : n \in 0..NSlots}

Consume(bs, list) ==
  [s \in Slots |-> IF \E i \in 1..Len(list) : list[i] = s THEN NoBuf ELSE bs[s]]

\* What the record of a call keeps of each input: concat_into_one keeps the
\* buffer value and its bytes, zip_into_one the bytes and the bit width.
Inputs(al, bs, list) ==
  [i \in 1..Len(list) |->
     [buf |-> bs[list[i]], bytes |-> as_ref(al, bs[list[i]]), bits |-> 0, read |-> 0]]
ZipInputs(cols, bits, cur) ==
  [i \in 1..Len(cols) |->
     [buf |-> NoBuf, bytes |-> cols[i].bytes, bits |-> bits[i], read |-> cur[i]]]

\* LanceBuffer::concat_into_one(buffers), for a list that is not a single buffer:
\* the bytes of the new Vec.
concat_data(al, bs, list) == Flatten([i \in 1..Len(list) |-> as_ref(al, bs[list[i]])])

\* Mutant of concat_into_one_of: the single-buffer early return is missing, as
\* in LanceBuffer::concat, which always copies.
concat_always_copies(al, bs, list) ==
  NewVec(al, concat_data(al, bs, list), "Owned")

\* LanceBuffer::concat_into_one(buffers)
concat_into_one_of(al, bs, list) ==
  IF Len(list) = 1
    THEN [al |-> al, buf |-> bs[list[1]]]
    ELSE NewVec(al, concat_data(al, bs, list), "Owned")

Concat(max_total) ==
  /\ Idle
  /\ \E list \in Lists(bufs) :
       /\ Len(list) = 0 => FreeSlots(bufs) # {}
       /\ Len(concat_data(allocs, bufs, list)) <= max_total
       /\ LET v == concat_into_one_of(allocs, bufs, list)
              rest == Consume(bufs, list)
              r == NewSlot(rest)
          IN Commit(v.al, [rest EXCEPT ![r] = v.buf],
                    [Call("concat_into_one", "ok", 0, r, <<>>)
                       EXCEPT !.ins = Inputs(allocs, bufs, list)])

concat_into_one == Concat(MaxLen)
concat_into_one_any == Concat(MaxBuf)

\* The bit widths zip_into_one rejects, in list order.
BadWidths(bits) == SelectSeq(bits, LAMBDA b : b % 8 # 0)

\* The copy loop of zip_into_one.  A column is [bytes, w]; the loop state is the
\* write position, the read cursor of each column and the bytes written.  A read
\* at or past the end of a column's bytes is out of bounds: it yields `garbage`.
ZipCol(cols, st, i, garbage) ==
  LET w == cols[i].w
      src == cols[i].bytes
      at(k) == IF k < Len(src) THEN src[k + 1] ELSE garbage
  IN [pos |-> st.pos + w,
      cur |-> [st.cur EXCEPT ![i] = @ + w],
      out |-> st.out \o [k \in 1..w |-> at(st.cur[i] + k - 1)]]

ZipLoop(cols, total_bytes, garbage) ==
  LET RECURSIVE row(_, _)
      row(st, i) == IF i > Len(cols) THEN st ELSE row(ZipCol(cols, st, i, garbage), i + 1)
      RECURSIVE while(_)
      while(st) == IF st.pos < total_bytes THEN while(row(st, 1)) ELSE st
  IN while([pos |-> 0, cur |-> [i \in 1..Len(cols) |-> 0], out |-> <<>>])

ZipCols(al, bs, list, bits) ==
  [i \in 1..Len(list) |-> [bytes |-> as_ref(al, bs[list[i]]), w |-> bits[i] \div 8]]

total_bytes_of(cols, num_values) == SumSeq([i \in 1..Len(cols) |-> cols[i].w]) * num_values

\* A column is read out of bounds when the loop's cursor ends past its bytes.
ZipOutOfBounds(cols, fin) ==
  \E i \in 1..Len(cols) : fin.cur[i] > Len(cols[i].bytes)

\* The bytes an out-of-bounds read may yield (a sample of the arbitrary values).
Garbage == {0, 170}

\* LanceBuffer::zip_into_one(buffers, num_values)
Zip(max_total, widths, rows) ==
  /\ Idle
  /\ \E list \in Lists(bufs), num_values \in rows :
     \E bits \in [1..Len(list) -> widths] :
       LET cols == ZipCols(allocs, bufs, list, bits)
           total_bytes == total_bytes_of(cols, num_values)
           rest == Consume(bufs, list)
           r == NewSlot(rest)
           call(outcome, res, fin) ==
             [Call("zip_into_one", outcome, 0, res, <<num_values>>)
                EXCEPT !.ins = ZipInputs(cols, bits, fin.cur), !.written = fin.pos,
                       !.preLive = {}]
           safe == ZipLoop(cols, total_bytes, 0)
       IN /\ total_bytes <= max_total
          /\ Len(list) = 0 => FreeSlots(bufs) # {}
          /\ IF BadWidths(bits) # <<>>
               THEN Commit(allocs, rest,
                           [Call("zip_into_one", "err", 0, 0, <<num_values, BadWidths(bits)[1]>>)
                              EXCEPT !.vals = bits, !.preLive = {}])
             ELSE IF ~ZipOutOfBounds(cols, safe)
               THEN LET v == NewVec(allocs, safe.out, "Owned")
                    IN Commit(v.al, [rest EXCEPT ![r] = v.buf], call("ok", r, safe))
             ELSE \* undefined behaviour: the process faults, or reads arbitrary bytes
               \/ Commit(allocs, rest, call("ub", 0, safe))
               \/ \E garbage \in Garbage :
                    LET fin == ZipLoop(cols, total_bytes, garbage)
                        v == NewVec(allocs, fin.out, "Owned")
                    IN Commit(v.al, [rest EXCEPT ![r] = v.buf], call("ub", r, fin))

zip_into_one == Zip(MaxLen, {8, 12}, {1})
zip_into_one_any == Zip(MaxBuf, {4, 8, 12, 16}, 0..MaxRows)

\* ----------------------------------------------------------- equality
\* arrow_buffer::Buffer == Buffer, Vec<u8> == Vec<u8>, [u8] == [u8]: the lengths
\* and then the bytes, element by element.
slice_eq(x, y) ==
  /\ Len(x) = Len(y)
  /\ \A i \in 1..Len(x) : x[i] = y[i]

\* Mutant of eq_of: two Borrowed buffers are equal when they are the same view
\* of the same region.
eq_by_region(al, l, r) ==
  IF l.variant = "Borrowed" /\ r.variant = "Borrowed"
    THEN l.alloc = r.alloc /\ l.ptr = r.ptr /\ l.len = r.len
    ELSE slice_eq(as_ref(al, l), as_ref(al, r))

\* impl PartialEq for LanceBuffer: eq(&self, other), one arm per variant pair.
eq_of(al, l, r) ==
  CASE l.variant = "Borrowed" /\ r.variant = "Borrowed" -> slice_eq(as_ref(al, l), as_ref(al, r))
    [] l.variant = "Owned" /\ r.variant = "Owned" -> slice_eq(as_ref(al, l), as_ref(al, r))
    [] l.variant = "Borrowed" /\ r.variant = "Owned" -> slice_eq(as_ref(al, l), as_ref(al, r))
    [] l.variant = "Owned" /\ r.variant = "Borrowed" -> slice_eq(as_ref(al, l), as_ref(al, r))

\* self == other on two held buffers (or one with itself); the answer is
\* recorded as 1 or 0 after the other operand.
eq ==
  /\ Idle
  /\ \E s \in Slots, t \in Slots :
       /\ bufs[s].variant \in {"Owned", "Borrowed"}
       /\ bufs[t].variant \in {"Owned", "Borrowed"}
       /\ Commit(allocs, bufs,
                 Call("eq", "ok", s, 0,
                      <<t, IF eq_of(allocs, bufs[s], bufs[t]) THEN 1 ELSE 0>>))

\* --------------------------------------------------------- into_bytes
\* Another buffer or typed view holds a reference to the region of bufs[s]
\* (the Arc<Bytes> behind an arrow Buffer has more than one strong reference).
Aliased(bs, vs, s) ==
  \/ \E t \in Slots \ {s} : bs[t].variant # "None" /\ bs[t].alloc = bs[s].alloc
  \/ \E v \in Views : vs[v].variant # "None" /\ vs[v].alloc = bs[s].alloc

\* arrow_buffer::Buffer::into_vec::<u8>(): Err(self) when the region is a custom
\* allocation, when the buffer starts past the region's start, when the region's
\* layout is not that of a Vec<u8>, or when the region has another reference;
\* otherwise the Vec of the buffer's bytes.
Buffer_into_vec(al, b, shared) ==
  IF \/ al[b.alloc].kind # "vec"
     \/ b.ptr # Base(al, b.alloc)
     \/ al[b.alloc].talign # 1
     \/ shared
    THEN [outcome |-> "err", bytes |-> <<>>]
    ELSE [outcome |-> "ok", bytes |-> as_ref(al, b)]

\* LanceBuffer::into_bytes(self): Vec<u8> -> Bytes, or into_vec().unwrap().
into_bytes_of(al, b, shared) ==
  IF b.variant = "Owned"
    THEN [outcome |-> "ok", bytes |-> as_ref(al, b)]
    ELSE LET v == Buffer_into_vec(al, b, shared)
         IN IF v.outcome = "ok" THEN v ELSE [outcome |-> "panic", bytes |-> <<>>]

\* The receiver is consumed.  A Borrowed buffer made from an empty Vec holds no
\* region of this heap, so its references are not tracked and it is left out.
into_bytes ==
  /\ Idle
  /\ \E s \in Slots :
       /\ bufs[s].variant \in {"Owned", "Borrowed"}
       /\ bufs[s].variant = "Borrowed" => bufs[s].alloc # 0
       /\ LET v == into_bytes_of(allocs, bufs[s], Aliased(bufs, views, s))
          IN Commit(allocs, [bufs EXCEPT ![s] = NoBuf],
                    [Call("into_bytes", v.outcome, s, 0, <<>>) EXCEPT !.bytes = v.bytes])

\* The caller lets a buffer value go out of scope.
Drop ==
  /\ Idle
  /\ \E s \in Slots :
       /\ bufs[s].variant # "None"
       /\ Commit(allocs, [bufs EXCEPT ![s] = NoBuf], NoCall)

DropView ==
  /\ Idle
  /\ \E v \in Views :
       /\ views[v].variant # "None"
       /\ CommitViews(allocs, bufs, [views EXCEPT ![v] = NoBuf], NoCall)

\* The caller takes the outcome of a call that returned; a panic is fatal and
\* undefined behaviour ends the defined execution.  It remembers the Vec<T> a
\* buffer was just made from by reinterpret_vec, until its next call.
Return ==
  /\ last.op # "none"
  /\ last.outcome \in {"ok", "err"}
  /\ last' = [NoCall EXCEPT !.made =
                 IF last.op = "reinterpret_vec"
                   THEN <<[slot |-> last.res, size |-> last.args[1], vals |-> last.vals]>>
                   ELSE <<>>]
  /\ UNCHANGED <<allocs, bufs, views>>

\* ------------------------------------------------------ specifications
\* The ownership machine: every operation, on one constructed buffer and what
\* is derived from it.
Next ==
  \/ Return
  \/ from_vec
  \/ from_bytes
  \/ reinterpret_vec
  \/ into_borrowed
  \/ into_owned
  \/ to_owned
  \/ deep_copy
  \/ borrow_and_clone
  \/ try_clone
  \/ slice_with_length
  \/ bit_slice_le_with_length
  \/ concat_into_one
  \/ zip_into_one
  \/ Drop

Spec == Init /\ [][Next]_vars

\* Typed reinterpretation of constructed buffers, the views being kept.
NextTyped ==
  \/ Return
  \/ from_vec
  \/ from_bytes
  \/ reinterpret_vec_wide
  \/ borrow_to_typed_slice
  \/ DropView

SpecTyped == Init /\ [][NextTyped]_vars

\* Bit slices at every offset and length of constructed buffers.
NextBits ==
  \/ Return
  \/ from_vec
  \/ from_bytes
  \/ reinterpret_vec_wide
  \/ bit_slice_le_any

SpecBits == Init /\ [][NextBits]_vars

\* Combination of independently constructed buffers.
NextComb ==
  \/ Return
  \/ from_vec_any
  \/ reinterpret_vec_any
  \/ concat_into_one_any
  \/ zip_into_one_any

SpecComb == Init /\ [][NextComb]_vars

\* Equality between independently constructed buffers and their conversions.
NextEq ==
  \/ Return
  \/ from_vec_any
  \/ from_bytes
  \/ into_borrowed
  \/ deep_copy
  \/ borrow_and_clone
  \/ eq

SpecEq == Init /\ [][NextEq]_vars

\* Conversion to bytes::Bytes of buffers built, shared and sliced.
NextBytes ==
  \/ Return
  \/ from_vec
  \/ from_bytes
  \/ reinterpret_vec
  \/ into_borrowed
  \/ borrow_and_clone
  \/ try_clone
  \/ slice_with_length
  \/ into_bytes
  \/ Drop

SpecBytes == Init /\ [][NextBytes]_vars

\* ----------------------------------------------------------------- claims
ZipCall == last.op = "zip_into_one"
ZipWidths == [i \in 1..Len(last.ins) |-> last.ins[i].bits \div 8]
ZipRowBytes == SumSeq(ZipWidths)
ZipPrefix(i) == SumSeq(SubSeq(ZipWidths, 1, i - 1))

\* C1: a zip_into_one call whose bit widths are all multiples of 8 reads every
\* input buffer only below that buffer's length, and writes only below the
\* output length num_values * sum(bits_per_value_i / 8).
C1_ZipInBounds ==
  (ZipCall /\ last.outcome # "err") =>
    /\ \A i \in 1..Len(last.ins) : last.ins[i].read <= Len(last.ins[i].bytes)
    /\ last.written <= last.args[1] * ZipRowBytes

\* C2: zip_into_one returns an error naming the first bit width that is not a
\* multiple of 8 exactly when there is one; otherwise it returns one Owned
\* buffer of num_values * sum(w) bytes in which the w_i bytes at
\* r * sum(w) + sum(w_j, j < i) are bytes [r * w_i, (r + 1) * w_i) of input i.
C2_ZipResult ==
  ZipCall =>
    IF last.outcome = "err"
      THEN /\ BadWidths(last.vals) # <<>>
           /\ last.args[2] = BadWidths(last.vals)[1]
           /\ last.res = 0
      ELSE /\ \A i \in 1..Len(last.ins) : last.ins[i].bits % 8 = 0
           /\ last.outcome = "ok"
           /\ last.res # 0
           /\ bufs[last.res].variant = "Owned"
           /\ len(bufs[last.res]) = last.args[1] * ZipRowBytes
           /\ LET out == as_ref(allocs, bufs[last.res])
              IN \A r \in 0..(last.args[1] - 1), i \in 1..Len(last.ins) :
                   \A k \in 0..(ZipWidths[i] - 1) :
                     /\ r * ZipWidths[i] + k < Len(last.ins[i].bytes)
                     /\ out[r * ZipRowBytes + ZipPrefix(i) + k + 1] =
                          last.ins[i].bytes[r * ZipWidths[i] + k + 1]

\* The part of C2 that the code does satisfy: the same statement for the calls in
\* which every input buffer holds its num_values values.
ZipWithinInputs ==
  (ZipCall /\ last.outcome # "err"
     /\ \A i \in 1..Len(last.ins) :
          last.args[1] * ZipWidths[i] <= Len(last.ins[i].bytes)) => C2_ZipResult

ConcatCall == last.op = "concat_into_one"
ConcatBytes == Flatten([i \in 1..Len(last.ins) |-> last.ins[i].bytes])

\* C3: concat_into_one returns the inputs' bytes concatenated in list order, of
\* the summed length; a list of exactly one buffer yields that buffer itself
\* (same variant, same region, no copy), every other list a fresh Owned buffer.
C3_Concat ==
  ConcatCall =>
    /\ last.outcome = "ok"
    /\ as_ref(allocs, bufs[last.res]) = ConcatBytes
    /\ len(bufs[last.res]) = SumSeq([i \in 1..Len(last.ins) |-> len(last.ins[i].buf)])
    /\ IF Len(last.ins) = 1
         THEN bufs[last.res] = last.ins[1].buf
         ELSE /\ bufs[last.res].variant = "Owned"
              /\ bufs[last.res].alloc \notin last.preLive

\* C3 witness: two non-empty buffers of different variants were concatenated.
C3_Witness ==
  /\ ConcatCall
  /\ Len(last.ins) = 2
  /\ last.ins[1].buf.variant = "Borrowed"
  /\ last.ins[2].buf.variant = "Owned"
  /\ last.ins[1].bytes # <<>>
  /\ last.ins[2].bytes # <<>>
  /\ last.ins[1].bytes # last.ins[2].bytes

BitSliceCall == last.op = "bit_slice_le_with_length"
\* Bit i of a byte sequence, bit 0 being the least significant bit of byte 0.
BitAt(bytes, i) == (bytes[(i \div 8) + 1] \div (2 ^ (i % 8))) % 2
BitSliceInRange == last.args[1] + last.args[2] <= 8 * Len(last.preBytes)
BitSliceOut == as_ref(allocs, bufs[last.res])
BitSliceCopiesBits ==
  /\ last.outcome = "ok"
  /\ Len(BitSliceOut) = (last.args[2] + 7) \div 8
  /\ \A i \in 0..(last.args[2] - 1) :
       BitAt(BitSliceOut, i) = BitAt(last.preBytes, last.args[1] + i)

\* C4 as stated: within the buffer, bit_slice_le_with_length returns
\* ceil(bit_length / 8) bytes whose bit i is source bit bit_offset + i, and every
\* output bit at a position >= bit_length is zero, whether or not bit_offset is a
\* multiple of 8.
C4_BitSliceZeroPadded ==
  (BitSliceCall /\ BitSliceInRange) =>
    /\ BitSliceCopiesBits
    /\ \A i \in last.args[2]..(8 * Len(BitSliceOut) - 1) : BitAt(BitSliceOut, i) = 0

\* C4 amended: the output bits at positions >= bit_length are zero when
\* bit_offset is not a multiple of 8; when it is a multiple of 8 the result is
\* the byte slice at bit_offset / 8 of the same region, so those bits of its last
\* byte are the source bits bit_offset + i.
C4_BitSlice ==
  (BitSliceCall /\ BitSliceInRange) =>
    /\ BitSliceCopiesBits
    /\ \A i \in last.args[2]..(8 * Len(BitSliceOut) - 1) :
         BitAt(BitSliceOut, i) =
           IF last.args[1] % 8 = 0 THEN BitAt(last.preBytes, last.args[1] + i) ELSE 0
    /\ last.args[1] % 8 = 0 =>
         /\ bufs[last.res].alloc = last.pre.alloc
         /\ bufs[last.res].ptr = last.pre.ptr + (last.args[1] \div 8)

\* C4 witness: tests::test_bit_slice_le, the slice of [0x0F, 0x0B] at bit 3 of
\* 8 bits is [0x61].
C4_Witness ==
  /\ BitSliceCall
  /\ last.preBytes = <<15, 11>>
  /\ last.args = <<3, 8>>
  /\ BitSliceOut = <<97>>

SliceCall == last.op = "slice_with_length"
ReceiverUnchanged ==
  /\ bufs[last.recv] = last.pre
  /\ as_ref(allocs, bufs[last.recv]) = last.preBytes

\* C5: slice_with_length(offset, length) panics exactly when offset + length,
\* without wrap-around, exceeds the length; otherwise it returns bytes
\* [offset, offset + length) in the receiver's variant, a Borrowed result being a
\* view of the receiver's region and an Owned result an independent copy; the
\* receiver is unchanged in every case.
C5_Slice ==
  SliceCall =>
    /\ last.outcome \in {"ok", "panic"}
    /\ (last.outcome = "panic") <=> (last.args[1] + last.args[2] > len(last.pre))
    /\ ReceiverUnchanged
    /\ last.outcome = "ok" =>
         LET out == bufs[last.res]
         IN /\ as_ref(allocs, out) =
                 SubSeq(last.preBytes, last.args[1] + 1, last.args[1] + last.args[2])
            /\ out.variant = last.pre.variant
            /\ IF last.pre.variant = "Borrowed"
                 THEN /\ out.alloc = last.pre.alloc
                      /\ out.ptr = last.pre.ptr + last.args[1]
                      /\ LiveAllocs(bufs, views) = last.preLive
                 ELSE out.alloc \notin last.preLive

\* C5 witness: a one-byte slice at offset 1 of a Borrowed buffer.
C5_Witness ==
  /\ SliceCall
  /\ last.outcome = "ok"
  /\ last.pre.variant = "Borrowed"
  /\ last.args = <<1, 1>>

\* C8: try_clone on an Owned buffer returns an error value and leaves the buffer
\* as it was; on a Borrowed buffer it returns a Borrowed buffer on the same
\* region, with no copy, and leaves the receiver as it was.
C8_TryClone ==
  last.op = "try_clone" =>
    /\ ReceiverUnchanged
    /\ LiveAllocs(bufs, views) = last.preLive
    /\ IF last.pre.variant = "Owned"
         THEN last.outcome = "err" /\ last.res = 0
         ELSE /\ last.outcome = "ok"
              /\ bufs[last.res] = last.pre
              /\ as_ref(allocs, bufs[last.res]) = last.preBytes

\* C8 witness: try_clone was refused on a non-empty Owned buffer.
C8_Witness ==
  /\ last.op = "try_clone"
  /\ last.outcome = "err"
  /\ last.pre.variant = "Owned"
  /\ last.preBytes # <<>>

\* C9: after borrow_and_clone or bit_slice_le_with_length the receiver is
\* Borrowed with the bytes it had, on the region it had (an Owned receiver's
\* allocation is donated, not copied); borrow_and_clone returns a Borrowed buffer
\* on the receiver's region and bit_slice_le_with_length a Borrowed buffer.
C9_ReceiverBecomesShared ==
  last.op \in {"borrow_and_clone", "bit_slice_le_with_length"} =>
    /\ bufs[last.recv] = [last.pre EXCEPT !.variant = "Borrowed"]
    /\ as_ref(allocs, bufs[last.recv]) = last.preBytes
    /\ last.op = "borrow_and_clone" =>
         /\ last.outcome = "ok"
         /\ bufs[last.res] = bufs[last.recv]
         /\ LiveAllocs(bufs, views) = last.preLive
    /\ (last.op = "bit_slice_le_with_length" /\ last.outcome = "ok") =>
         bufs[last.res].variant = "Borrowed"

\* C9 witness: borrow_and_clone on a non-empty Owned buffer.
C9_Witness ==
  /\ last.op = "borrow_and_clone"
  /\ last.pre.variant = "Owned"
  /\ last.preBytes # <<>>

\* No Owned buffer shares its allocation with another live value, nor holds an
\* external region.
OwnedExclusive ==
  \A s \in Slots :
    (bufs[s].variant = "Owned" /\ bufs[s].alloc # 0) =>
      /\ allocs[bufs[s].alloc].kind = "vec"
      /\ \A t \in Slots \ {s} : bufs[t].alloc # bufs[s].alloc
      /\ \A v \in Views : views[v].alloc # bufs[s].alloc

\* C10: in every reachable state no Owned buffer shares its allocation with
\* another live buffer or with the external bytes it was built from; from_bytes
\* yields an Owned buffer only as a fresh copy, and every Borrowed-to-Owned
\* transition copies.
C10_OwnedNeverAliases ==
  /\ OwnedExclusive
  /\ (last.op = "from_bytes" /\ bufs[last.res].variant = "Owned") =>
       bufs[last.res].alloc \notin last.preLive
  /\ (last.op \in {"into_owned", "to_owned", "deep_copy"} /\ last.pre.variant = "Borrowed") =>
       /\ bufs[last.res].variant = "Owned"
       /\ bufs[last.res].alloc \notin last.preLive
       /\ as_ref(allocs, bufs[last.res]) = last.preBytes

\* C10 witness: into_owned on a Borrowed buffer whose region another live buffer
\* still holds.
C10_Witness ==
  /\ last.op = "into_owned"
  /\ last.pre.variant = "Borrowed"
  /\ last.pre.alloc # 0
  /\ \E t \in Slots \ {last.recv} : bufs[t].alloc = last.pre.alloc

TypedCall == last.op = "borrow_to_typed_slice"
TypedSize == last.args[1]
TypedAligned == last.pre.ptr % TypedSize = 0
TypedView == views[last.res]
EarlierViews == {v \in Views \ {last.res} : views[v].variant = "Scalar"}
TypedNoCopy == TypedView.alloc = last.pre.alloc /\ TypedView.ptr = last.pre.ptr

\* What C6 says of every call: a panic exactly when the length is not a multiple
\* of size_of::<T>(), the buffer then being as it was; otherwise a view of the
\* buffer's bytes that is a copy exactly when the start address is misaligned
\* for T; when aligned the receiver becomes Borrowed and the view starts at the
\* receiver's address in its region; when misaligned the receiver is as it was.
TypedSliceCommon ==
  /\ last.outcome \in {"ok", "panic"}
  /\ (last.outcome = "panic") <=> (len(last.pre) % TypedSize # 0)
  /\ last.outcome = "panic" => ReceiverUnchanged
  /\ last.outcome = "ok" =>
       /\ as_ref(allocs, TypedView) = last.preBytes
       /\ TypedView.tsize = TypedSize
       /\ TypedNoCopy <=> TypedAligned
       /\ IF TypedAligned
            THEN /\ bufs[last.recv] = [last.pre EXCEPT !.variant = "Borrowed"]
                 /\ as_ref(allocs, bufs[last.recv]) = last.preBytes
                 /\ LiveAllocs(bufs, views) = last.preLive
            ELSE ReceiverUnchanged

\* Every view taken at a type the buffer is aligned for starts at the buffer's
\* own address: this call and any later one see the same region.
AlignedViewsAgree ==
  \A s \in Slots, v \in Views :
    (bufs[s].variant # "None" /\ views[v].variant = "Scalar"
       /\ is_aligned(bufs[s].ptr, views[v].tsize)) =>
      /\ views[v].ptr = bufs[s].ptr
      /\ views[v].alloc = bufs[s].alloc

\* C6 as stated: ... when misaligned, every call returns a freshly allocated
\* region, distinct from the receiver's and from every earlier result.
C6_TypedSliceFreshWhenMisaligned ==
  /\ AlignedViewsAgree
  /\ TypedCall =>
       /\ TypedSliceCommon
       /\ (last.outcome = "ok" /\ ~TypedAligned) =>
            /\ TypedView.alloc \notin last.preLive
            /\ TypedView.ptr # last.pre.ptr
            /\ \A w \in EarlierViews : views[w].ptr # TypedView.ptr

\* C6 amended: ... when misaligned and the buffer is not empty, every call
\* returns a freshly allocated region, distinct from the receiver's and from
\* every earlier result; when misaligned and empty nothing is allocated and every
\* call returns the same empty view, at the dangling address aligned for T.
C6_TypedSlice ==
  /\ AlignedViewsAgree
  /\ TypedCall =>
       /\ TypedSliceCommon
       /\ (last.outcome = "ok" /\ ~TypedAligned) =>
            IF len(last.pre) > 0
              THEN /\ TypedView.alloc # 0
                   /\ TypedView.alloc \notin last.preLive
                   /\ TypedView.ptr # last.pre.ptr
                   /\ \A w \in EarlierViews : views[w].ptr # TypedView.ptr
              ELSE /\ TypedView.alloc = 0
                   /\ TypedView.ptr = Dangling(TypedSize)
                   /\ LiveAllocs(bufs, views) = last.preLive

\* C6 witness: tests::test_to_typed_slice, the second borrow as u16 of a
\* two-byte buffer that starts at an odd address, the first view still held.
C6_Witness ==
  /\ TypedCall
  /\ last.outcome = "ok"
  /\ TypedSize = 2
  /\ ~TypedAligned
  /\ len(last.pre) = 2
  /\ \E w \in EarlierViews : views[w].tsize = 2 /\ views[w].alloc # last.pre.alloc

\* C7: reinterpret_vec(v) is a Borrowed buffer of len(v) * size_of::<T>() bytes,
\* the little-endian encodings of v's elements in order, and
\* borrow_to_typed_slice::<T> on it returns exactly v.
C7_RoundTrip ==
  /\ last.op = "reinterpret_vec" =>
       LET b == bufs[last.res]
           size == last.args[1]
       IN /\ b.variant = "Borrowed"
          /\ len(b) = Len(last.vals) * size
          /\ \A i \in 1..Len(last.vals), k \in 1..size :
               as_ref(allocs, b)[(i - 1) * size + k] = (last.vals[i] \div (256 ^ (k - 1))) % 256
  /\ (TypedCall /\ last.vals # <<>>) =>
       /\ last.outcome = "ok"
       /\ last.typed = last.vals[1]

\* C7 witness: a Vec<u16> of two different elements came back from the round trip.
C7_Witness ==
  /\ TypedCall
  /\ last.vals = << <<2831, 3851>> >>
  /\ last.typed = <<2831, 3851>>

EqCall == last.op = "eq"
Held == {s \in Slots : bufs[s].variant \in {"Owned", "Borrowed"}}
EqHeld(s, t) == eq_of(allocs, bufs[s], bufs[t])
\* The buffers held and every Borrowed slice that can be taken of them.
EqValues ==
  {bufs[s] : s \in Held} \cup
  UNION {{Buffer_slice_with_length(into_borrowed_of(bufs[s]), o, n) :
            o \in 0..len(bufs[s]), n \in 1..len(bufs[s])} : s \in Held}
EqInBounds(b) == b.alloc = 0 \/ b.ptr - Base(allocs, b.alloc) + b.len <= Len(allocs[b.alloc].bytes)

\* C11: two buffers compare equal exactly when their bytes are the same, in all
\* four variant pairs; so equality is reflexive, symmetric and transitive on the
\* buffers held and the slices of them, and the
\* results of into_borrowed, deep_copy and borrow_and_clone equal the original.
C11_EqByContent ==
  /\ EqCall =>
       (last.args[2] = 1) <=> (last.preBytes = as_ref(allocs, bufs[last.args[1]]))
  /\ \A s \in Held : EqHeld(s, s)
  /\ \A s \in Held, t \in Held : EqHeld(s, t) <=> EqHeld(t, s)
  /\ LET vs == {v \in EqValues : EqInBounds(v)}
     IN \A x \in vs, y \in vs :
          /\ eq_of(allocs, x, y) <=> (as_ref(allocs, x) = as_ref(allocs, y))
          /\ eq_of(allocs, x, y) => \A z \in vs : eq_of(allocs, y, z) => eq_of(allocs, x, z)
  /\ (last.op \in {"into_borrowed", "deep_copy", "borrow_and_clone"}) =>
       /\ eq_of(allocs, bufs[last.res], last.pre)
       /\ eq_of(allocs, last.pre, bufs[last.res])
       /\ as_ref(allocs, bufs[last.res]) = last.preBytes
  /\ last.op \in {"deep_copy", "borrow_and_clone"} =>
       EqHeld(last.res, last.recv)

\* C11 witness: a Borrowed and an Owned buffer in different regions, holding the
\* same two bytes, were compared and found equal.
C11_Witness ==
  /\ EqCall
  /\ last.args[2] = 1
  /\ last.pre.variant = "Borrowed"
  /\ bufs[last.args[1]].variant = "Owned"
  /\ bufs[last.args[1]].alloc # last.pre.alloc
  /\ last.preBytes = <<15, 11>>

IntoBytesCall == last.op = "into_bytes"

\* C12: into_bytes never fails fatally and returns exactly the buffer's bytes,
\* whatever the variant, the origin of the region, the offset of the buffer in
\* it and the other references to it.
C12_IntoBytes ==
  IntoBytesCall =>
    /\ last.outcome = "ok"
    /\ last.bytes = last.preBytes

\* What does hold of into_bytes: it returns no other bytes than the buffer's,
\* it succeeds for every Owned buffer, and it fails for a Borrowed buffer whose
\* region is still referenced by another buffer.
IntoBytesOwnedOrPanic ==
  IntoBytesCall =>
    /\ last.outcome \in {"ok", "panic"}
    /\ last.outcome = "ok" => last.bytes = last.preBytes
    /\ last.pre.variant = "Owned" => last.outcome = "ok"
    /\ (last.pre.variant = "Borrowed" /\ last.pre.alloc \in LiveAllocs(bufs, views)) =>
         last.outcome = "panic"

\* A reachable case: into_bytes succeeds for a Borrowed buffer that is the only
\* reference to a Vec<u8> region and starts at its start.
IntoBytesOkBorrowed ==
  /\ IntoBytesCall
  /\ last.pre.variant = "Borrowed"
  /\ last.outcome = "ok"
  /\ last.bytes # <<>>
====
